---- MODULE Spec2Model ----
(***************************************************************************)
(* Model of jules-scratch/verification/verify_admin_page.py: a script that *)
(* enters a sync_playwright() scope, launches chromium, opens a page,      *)
(* navigates to the admin route, waits 5000 ms, writes a screenshot and    *)
(* closes the browser.                                                     *)
(*                                                                         *)
(* The runner is one sequential process; pc is the statement it is about   *)
(* to execute.  Each of the five calls launch, new_page, goto,             *)
(* wait_for_timeout and screenshot either returns or raises; nothing in    *)
(* the script catches an exception, so a raise unwinds run() and the       *)
(* `with` block.  The environment contributes the service being up or      *)
(* down, the page finishing its rendering at an arbitrary moment, the      *)
(* files already on disk, and the user starting the script again.          *)
(***************************************************************************)
EXTENDS Integers, Sequences, FiniteSets, TLC

\* ---- program constants -------------------------------------------------
TargetUrl == "http://localhost:3000/#/admin"
WaitMs == 5000
OutputPath == "jules-scratch/verification/admin_page.png"

\* ---- bounds ------------------------------------------------------------
\* number of times the script is started in one behaviour
MaxRuns == 2
\* largest time (ms) a call other than the wait may take
MaxStepMs == 1

\* ---- environment -------------------------------------------------------
\* a file of the working tree the script never names
OtherPath == "jules-scratch/verification/other.txt"
Paths == {OutputPath, OtherPath}

NoFile == [exists |-> FALSE, data |-> <<>>]
File(bytes) == [exists |-> TRUE, data |-> bytes]

\* what the rasterizer sees: the page fully rendered or not yet
Image(isRendered) == IF isRendered THEN "full" ELSE "partial"

\* the statements of run(), in program order
StepOrder == <<"launch", "new_page", "goto", "wait_for_timeout", "screenshot", "close">>
Steps == {StepOrder[i] : i \in 1..Len(StepOrder)}

VARIABLES
  pc,           \* statement the runner is about to execute, or done/failed
  runs,         \* how many times the script has been started
  serviceUp,    \* is something listening on localhost:3000 during this run
  driver,       \* the sync_playwright scope: none / running / stopped
  browser,      \* the chromium instance: none / running / closed
  page,         \* none / blank / loaded
  rendered,     \* has the loaded page finished rendering
  fs,           \* path -> file
  fsBefore,     \* fs as it was when this run started
  elapsed,      \* ms since this run started
  navAt,        \* elapsed when goto returned
  shotAt,       \* elapsed when screenshot was entered
  exc,          \* an exception is propagating
  log,          \* calls made by run() in this run, with their outcome
  acquisitions, \* browsers brought up in this run
  releases,     \* browsers taken down in this run
  navRequests,  \* URLs requested in this run
  fileWrites,   \* files opened for writing in this run
  closeCalls,   \* calls of browser.close() in this run
  ctxExits      \* exits of the sync_playwright scope in this run

vars == <<pc, runs, serviceUp, driver, browser, page, rendered, fs, fsBefore,
          elapsed, navAt, shotAt, exc, log, acquisitions, releases,
          navRequests, fileWrites, closeCalls, ctxExits>>

Terminal == {"done", "failed"}

\* ---- helpers -----------------------------------------------------------
IndexOf(step) == CHOOSE i \in 1..Len(StepOrder) : StepOrder[i] = step

\* variant: the sequence jumps from goto straight to screenshot
SuccSkipsWait(step) ==
  IF step = "goto" THEN "screenshot"
  ELSE IF IndexOf(step) < Len(StepOrder) THEN StepOrder[IndexOf(step) + 1] ELSE "exit"

\* the statement after `step` in run(); after close, run() returns into
\* the end of the with block
Succ(step) ==
  IF IndexOf(step) < Len(StepOrder) THEN StepOrder[IndexOf(step) + 1] ELSE "exit"

Attempts(step) == Cardinality({i \in 1..Len(log) : log[i].step = step})
Returned(step) == \E i \in 1..Len(log) : log[i].step = step /\ log[i].ok
Raised(step) == \E i \in 1..Len(log) : log[i].step = step /\ ~log[i].ok
AnyRaised == \E i \in 1..Len(log) : ~log[i].ok

\* a call returns after d ms: control moves to the next statement
Return(step, d) ==
  /\ log' = Append(log, [step |-> step, ok |-> TRUE])
  /\ pc' = Succ(step)
  /\ elapsed' = elapsed + d
  /\ exc' = exc

\* variant: a failing call is attempted a second time before giving up
RaiseRetryOnce(step) ==
  /\ log' = Append(log, [step |-> step, ok |-> FALSE])
  /\ pc' = IF Attempts(step) = 0 THEN step ELSE "exit"
  /\ exc' = (Attempts(step) > 0)
  /\ elapsed' = elapsed

\* variant: run() wraps its body in try/finally: browser.close()
RaiseThroughFinally(step) ==
  /\ log' = Append(log, [step |-> step, ok |-> FALSE])
  /\ pc' = "close"
  /\ exc' = TRUE
  /\ elapsed' = elapsed

\* a call raises: there is no try/except in the script, so control leaves
\* run() and reaches the exit of the with block with the exception pending
Raise(step) ==
  /\ log' = Append(log, [step |-> step, ok |-> FALSE])
  /\ pc' = "exit"
  /\ exc' = TRUE
  /\ elapsed' = elapsed

\* variant: the image is appended to what the file already holds
AppendFile(f, path, bytes) ==
  [f EXCEPT ![path] = File((IF f[path].exists THEN f[path].data ELSE <<>>) \o bytes)]

\* variant: the image lands next to the output path, not on it
WriteFileBeside(f, path, bytes) == [f EXCEPT ![OtherPath] = File(bytes)]

\* page.screenshot(path=...) writes the image with truncate-and-write
WriteFile(f, path, bytes) == [f EXCEPT ![path] = File(bytes)]

\* ---- initial state -----------------------------------------------------
Init ==
  /\ pc = "start"
  /\ runs = 1
  /\ serviceUp \in BOOLEAN
  /\ driver = "none"
  /\ browser = "none"
  /\ page = "none"
  /\ rendered = FALSE
  /\ fs \in {[p \in Paths |-> IF p = OutputPath THEN o ELSE File(<<"other">>)] :
               o \in {NoFile, File(<<"stale">>)}}
  /\ fsBefore = fs
  /\ elapsed = 0
  /\ navAt = 0
  /\ shotAt = 0
  /\ exc = FALSE
  /\ log = <<>>
  /\ acquisitions = 0
  /\ releases = 0
  /\ navRequests = <<>>
  /\ fileWrites = 0
  /\ closeCalls = 0
  /\ ctxExits = 0

\* ---- the runner --------------------------------------------------------
\* line 11: with sync_playwright() as playwright -- the scope is entered
sync_playwright_enter ==
  /\ pc = "start"
  /\ driver' = "running"
  /\ pc' = "launch"
  /\ UNCHANGED <<runs, serviceUp, browser, page, rendered, fs, fsBefore,
                 elapsed, navAt, shotAt, exc, log, acquisitions, releases,
                 navRequests, fileWrites, closeCalls, ctxExits>>

\* line 4: browser = playwright.chromium.launch()
launch ==
  /\ pc = "launch"
  /\ \E d \in 0..MaxStepMs : Return("launch", d)
  /\ browser' = "running"
  /\ acquisitions' = acquisitions + 1
  /\ UNCHANGED <<runs, serviceUp, driver, page, rendered, fs, fsBefore,
                 navAt, shotAt, releases, navRequests, fileWrites,
                 closeCalls, ctxExits>>

launch_raises ==
  /\ pc = "launch"
  /\ Raise("launch")
  /\ UNCHANGED <<runs, serviceUp, driver, browser, page, rendered, fs,
                 fsBefore, navAt, shotAt, acquisitions, releases,
                 navRequests, fileWrites, closeCalls, ctxExits>>

\* line 5: page = browser.new_page()
new_page ==
  /\ pc = "new_page"
  /\ \E d \in 0..MaxStepMs : Return("new_page", d)
  /\ page' = "blank"
  /\ UNCHANGED <<runs, serviceUp, driver, browser, rendered, fs, fsBefore,
                 navAt, shotAt, acquisitions, releases, navRequests,
                 fileWrites, closeCalls, ctxExits>>

new_page_raises ==
  /\ pc = "new_page"
  /\ Raise("new_page")
  /\ UNCHANGED <<runs, serviceUp, driver, browser, page, rendered, fs,
                 fsBefore, navAt, shotAt, acquisitions, releases,
                 navRequests, fileWrites, closeCalls, ctxExits>>

\* variant: a refused connection renders the browser's error page and
\* goto returns
goto_tolerant ==
  /\ pc = "goto"
  /\ \E d \in 0..MaxStepMs : Return("goto", d)
  /\ navRequests' = Append(navRequests, TargetUrl)
  /\ page' = "loaded"
  /\ navAt' = elapsed'
  /\ UNCHANGED <<runs, serviceUp, driver, browser, rendered, fs, fsBefore,
                 shotAt, acquisitions, releases, fileWrites, closeCalls,
                 ctxExits>>

\* line 6: page.goto("http://localhost:3000/#/admin") -- returns only when
\* the service answered
goto ==
  /\ pc = "goto"
  /\ serviceUp
  /\ \E d \in 0..MaxStepMs : Return("goto", d)
  /\ navRequests' = Append(navRequests, TargetUrl)
  /\ page' = "loaded"
  /\ navAt' = elapsed'
  /\ UNCHANGED <<runs, serviceUp, driver, browser, rendered, fs, fsBefore,
                 shotAt, acquisitions, releases, fileWrites, closeCalls,
                 ctxExits>>

\* connection refused when nothing listens; a navigation error otherwise
goto_raises ==
  /\ pc = "goto"
  /\ Raise("goto")
  /\ navRequests' = Append(navRequests, TargetUrl)
  /\ UNCHANGED <<runs, serviceUp, driver, browser, page, rendered, fs,
                 fsBefore, navAt, shotAt, acquisitions, releases,
                 fileWrites, closeCalls, ctxExits>>

\* variant: a condition-based wait that ends as soon as the page rendered
WaitUntilRendered(ms, isRendered) == IF isRendered THEN 0 ELSE ms

\* how long page.wait_for_timeout(ms) suspends the runner: the argument,
\* whatever the page is doing
WaitTime(ms, isRendered) == ms

\* line 7: page.wait_for_timeout(5000)
wait_for_timeout ==
  /\ pc = "wait_for_timeout"
  /\ Return("wait_for_timeout", WaitTime(WaitMs, rendered))
  /\ shotAt' = elapsed'
  /\ UNCHANGED <<runs, serviceUp, driver, browser, page, rendered, fs,
                 fsBefore, navAt, acquisitions, releases, navRequests,
                 fileWrites, closeCalls, ctxExits>>

wait_for_timeout_raises ==
  /\ pc = "wait_for_timeout"
  /\ Raise("wait_for_timeout")
  /\ UNCHANGED <<runs, serviceUp, driver, browser, page, rendered, fs,
                 fsBefore, navAt, shotAt, acquisitions, releases,
                 navRequests, fileWrites, closeCalls, ctxExits>>

\* variant: screenshot() without path= returns the bytes and writes nothing
screenshot_in_memory ==
  /\ pc = "screenshot"
  /\ \E d \in 0..MaxStepMs : Return("screenshot", d)
  /\ UNCHANGED <<runs, serviceUp, driver, browser, page, rendered, fs,
                 fsBefore, navAt, shotAt, acquisitions, releases,
                 navRequests, fileWrites, closeCalls, ctxExits>>

\* line 8: page.screenshot(path="jules-scratch/verification/admin_page.png")
screenshot ==
  /\ pc = "screenshot"
  /\ \E d \in 0..MaxStepMs : Return("screenshot", d)
  /\ fs' = WriteFile(fs, OutputPath, <<Image(rendered)>>)
  /\ fileWrites' = fileWrites + 1
  /\ UNCHANGED <<runs, serviceUp, driver, browser, page, rendered, fsBefore,
                 navAt, shotAt, acquisitions, releases, navRequests,
                 closeCalls, ctxExits>>

\* the capture fails before the file is opened, or the write fails after
\* the file was opened and truncated
screenshot_raises ==
  /\ pc = "screenshot"
  /\ Raise("screenshot")
  /\ \E opened \in BOOLEAN :
       IF opened
         THEN /\ fs' = WriteFile(fs, OutputPath, <<>>)
              /\ fileWrites' = fileWrites + 1
         ELSE UNCHANGED <<fs, fileWrites>>
  /\ UNCHANGED <<runs, serviceUp, driver, browser, page, rendered, fsBefore,
                 navAt, shotAt, acquisitions, releases, navRequests,
                 closeCalls, ctxExits>>

\* line 9: browser.close()
close ==
  /\ pc = "close"
  /\ Return("close", 0)
  /\ closeCalls' = closeCalls + 1
  /\ releases' = IF browser = "running" THEN releases + 1 ELSE releases
  /\ browser' = IF browser = "running" THEN "closed" ELSE browser
  /\ page' = "none"
  /\ UNCHANGED <<runs, serviceUp, driver, rendered, fs, fsBefore, navAt,
                 shotAt, acquisitions, navRequests, fileWrites, ctxExits>>

\* variant: leaving the scope stops the driver and orphans the browser
sync_playwright_exit_orphans ==
  /\ pc = "exit"
  /\ driver' = "stopped"
  /\ ctxExits' = ctxExits + 1
  /\ pc' = IF exc THEN "failed" ELSE "done"
  /\ UNCHANGED <<runs, serviceUp, browser, page, rendered, fs, fsBefore,
                 elapsed, navAt, shotAt, exc, log, acquisitions, releases,
                 navRequests, fileWrites, closeCalls>>

\* variant: leaving the scope takes the browser down whether or not
\* browser.close() already did
sync_playwright_exit_kills_again ==
  /\ pc = "exit"
  /\ driver' = "stopped"
  /\ releases' = IF browser = "none" THEN releases ELSE releases + 1
  /\ browser' = IF browser = "none" THEN browser ELSE "closed"
  /\ page' = "none"
  /\ ctxExits' = ctxExits + 1
  /\ pc' = IF exc THEN "failed" ELSE "done"
  /\ UNCHANGED <<runs, serviceUp, rendered, fs, fsBefore, elapsed, navAt,
                 shotAt, exc, log, acquisitions, navRequests, fileWrites,
                 closeCalls>>

\* lines 11-12: the with block is left, by return or by exception.  The
\* scope stops the driver, which takes down a browser that is still up; the
\* pending exception, if any, is re-raised and ends the process.
sync_playwright_exit ==
  /\ pc = "exit"
  /\ driver' = "stopped"
  /\ releases' = IF browser = "running" THEN releases + 1 ELSE releases
  /\ browser' = IF browser = "running" THEN "closed" ELSE browser
  /\ page' = "none"
  /\ ctxExits' = ctxExits + 1
  /\ pc' = IF exc THEN "failed" ELSE "done"
  /\ UNCHANGED <<runs, serviceUp, rendered, fs, fsBefore, elapsed, navAt,
                 shotAt, exc, log, acquisitions, navRequests, fileWrites,
                 closeCalls>>

\* ---- the environment ---------------------------------------------------
\* the loaded page finishes rendering, at any moment while it is open
PageRenders ==
  /\ page = "loaded"
  /\ browser = "running"
  /\ ~rendered
  /\ rendered' = TRUE
  /\ UNCHANGED <<pc, runs, serviceUp, driver, browser, page, fs, fsBefore,
                 elapsed, navAt, shotAt, exc, log, acquisitions, releases,
                 navRequests, fileWrites, closeCalls, ctxExits>>

\* the script is started again after the previous process ended; the disk
\* is what the previous run left
Invoke ==
  /\ pc \in Terminal
  /\ runs < MaxRuns
  /\ runs' = runs + 1
  /\ serviceUp' \in BOOLEAN
  /\ pc' = "start"
  /\ driver' = "none"
  /\ browser' = "none"
  /\ page' = "none"
  /\ rendered' = FALSE
  /\ fsBefore' = fs
  /\ elapsed' = 0
  /\ navAt' = 0
  /\ shotAt' = 0
  /\ exc' = FALSE
  /\ log' = <<>>
  /\ acquisitions' = 0
  /\ releases' = 0
  /\ navRequests' = <<>>
  /\ fileWrites' = 0
  /\ closeCalls' = 0
  /\ ctxExits' = 0
  /\ UNCHANGED fs

\* ---- specifications ----------------------------------------------------
RunnerStep ==
  \/ sync_playwright_enter
  \/ launch
  \/ launch_raises
  \/ new_page
  \/ new_page_raises
  \/ goto
  \/ goto_raises
  \/ wait_for_timeout
  \/ wait_for_timeout_raises
  \/ screenshot
  \/ screenshot_raises
  \/ close
  \/ sync_playwright_exit

Next ==
  \/ sync_playwright_enter
  \/ launch
  \/ launch_raises
  \/ new_page
  \/ new_page_raises
  \/ goto
  \/ goto_raises
  \/ wait_for_timeout
  \/ wait_for_timeout_raises
  \/ screenshot
  \/ screenshot_raises
  \/ close
  \/ sync_playwright_exit
  \/ PageRenders
  \/ Invoke

Spec == Init /\ [][Next]_vars

\* the interpreter always executes the runner's next statement
FairSpec == Spec /\ WF_vars(RunnerStep)


\* ---- properties --------------------------------------------------------
Earlier(s, t) == IndexOf(s) < IndexOf(t)
CallsBeforeClose == Steps \ {"close"}
AllReturned == \A s \in CallsBeforeClose : Returned(s)
SingleRunContents == {File(<<Image(r)>>) : r \in BOOLEAN}

\* C1: no terminal state, done or failed, is reached with the browser
\* engine (or the driver scope that owns it) still held.
C1_EngineReleasedOnEveryExit ==
  pc \in Terminal => browser # "running" /\ driver # "running"

\* a run that failed after the browser was launched, and released it
C1_Witness ==
  /\ pc = "failed"
  /\ Returned("launch")
  /\ browser = "closed"
  /\ closeCalls = 0

\* C2: a call that raised was attempted exactly once, no later call of the
\* sequence was made after it, and the run is on its way to, or in, the
\* failed state and never in the done state.
C2_FailureNeitherCaughtNorRetried ==
  \A s \in Steps :
    Raised(s) =>
      /\ Attempts(s) = 1
      /\ \A t \in Steps : Earlier(s, t) => Attempts(t) = 0
      /\ exc
      /\ pc \in {"exit", "failed"}

\* a run that failed in the wait, with the screenshot and close never made
C2_Witness ==
  /\ pc = "failed"
  /\ Raised("wait_for_timeout")
  /\ Attempts("screenshot") = 0

\* C3: with nothing listening, once navigation has been attempted it has
\* raised, the run is failing, and the output path holds what it held
\* before the run: no write was made.
C3_UnreachableTargetWritesNothing ==
  (~serviceUp /\ Attempts("goto") > 0) =>
    /\ Raised("goto")
    /\ pc \in {"exit", "failed"}
    /\ fileWrites = 0
    /\ fs[OutputPath] = fsBefore[OutputPath]

\* a finished run against a dead service, with a stale file left in place
C3_Witness ==
  /\ ~serviceUp
  /\ pc = "failed"
  /\ Raised("goto")
  /\ fs[OutputPath] = File(<<"stale">>)

\* C4: a started run in which no call raises reaches successful exit, and
\* at successful exit the output path holds a non-empty file written by
\* this run's screenshot.
C4_SuccessProducesScreenshot ==
  /\ [](pc = "done" =>
          /\ Returned("screenshot")
          /\ fileWrites = 1
          /\ fs[OutputPath].exists
          /\ Len(fs[OutputPath].data) > 0)
  /\ ((pc = "start") ~> (pc = "done" \/ AnyRaised))

\* a first successful run on a disk that had no output file
C4_Witness ==
  /\ pc = "done"
  /\ runs = 1
  /\ ~fsBefore[OutputPath].exists
  /\ fs[OutputPath].exists

\* C5: in a later run that finds the screenshot of an earlier run at the
\* output path, the screenshot call returns and the file is exactly what a
\* single run produces: one image, nothing appended, no error.
C5_SecondRunOverwrites ==
  (runs >= 2 /\ fsBefore[OutputPath] \in SingleRunContents /\ Attempts("screenshot") > 0
     /\ AllReturned) =>
    /\ fs[OutputPath] \in SingleRunContents
    /\ Len(fs[OutputPath].data) = 1
    /\ ~exc

\* the second run done, over the first run's file
C5_Witness ==
  /\ runs = 2
  /\ pc = "done"
  /\ fsBefore[OutputPath] = File(<<"partial">>)
  /\ fs[OutputPath] = File(<<"full">>)

\* C6 as stated: at the end of every run the engine has been acquired
\* exactly once and released exactly once.
C6_AcquiredAndReleasedOnceInEveryRun ==
  pc \in Terminal => acquisitions = 1 /\ releases = 1

\* C6 amended: the engine is acquired at most once and never released more
\* often than acquired; at the end of a run the two counts agree, both 1
\* when launch returned and both 0 when it did not.
C6_ReleasedAsOftenAsAcquired ==
  /\ acquisitions <= 1
  /\ releases <= acquisitions
  /\ acquisitions = (IF Returned("launch") THEN 1 ELSE 0)
  /\ pc \in Terminal => releases = acquisitions

\* a successful run: one launch, one release, by browser.close()
C6_Witness ==
  /\ pc = "done"
  /\ acquisitions = 1
  /\ releases = 1
  /\ closeCalls = 1

\* C7: the screenshot is entered exactly the fixed wait after navigation
\* returned, rendered page or not, never without the wait, and a
\* successful run lasts at least the fixed wait.
C7_WaitIsUnconditional ==
  /\ Returned("wait_for_timeout") => shotAt = navAt + WaitMs
  /\ Attempts("screenshot") > 0 => Returned("wait_for_timeout")
  /\ pc = "done" => elapsed >= WaitMs

\* the page rendered during the wait, and the full wait still elapsed
C7_Witness ==
  /\ pc = "screenshot"
  /\ rendered
  /\ shotAt - navAt = WaitMs

\* C8: during a run every file other than the output path is as it was
\* when the run started, at most one navigation request has been issued
\* and at most one file write made.
C8_OnlyTheOutputPathChanges ==
  /\ \A p \in Paths \ {OutputPath} : fs[p] = fsBefore[p]
  /\ Len(navRequests) <= 1
  /\ fileWrites <= 1

\* a run that made its request and its write
C8_Witness ==
  /\ Len(navRequests) = 1
  /\ fileWrites = 1
  /\ fs[OutputPath] # fsBefore[OutputPath]

\* C9: the calls made so far are an initial part of launch, new_page,
\* goto, wait, screenshot, close in that order, every call but the last
\* has returned, the next call is the one after the last, and a
\* successful run has made all six.
C9_FixedOrder ==
  /\ Len(log) <= Len(StepOrder)
  /\ \A i \in 1..Len(log) :
       /\ log[i].step = StepOrder[i]
       /\ i < Len(log) => log[i].ok
  /\ pc \in Steps => pc = StepOrder[Len(log) + 1] /\ ~AnyRaised
  /\ pc = "done" => Len(log) = Len(StepOrder) /\ ~AnyRaised

\* the runner about to close, all five calls before it made in order
C9_Witness ==
  /\ pc = "close"
  /\ Len(log) = 5
  /\ log[5] = [step |-> "screenshot", ok |-> TRUE]

\* C10: browser.close() is called (once) exactly when the five calls
\* before it all returned; a failing run never calls it; the
\* sync_playwright scope is exited exactly once in every finished run, and
\* only as the last thing the run does.
C10_CloseOnlyOnSuccess ==
  /\ closeCalls <= 1
  /\ closeCalls = 1 => AllReturned
  /\ (AllReturned /\ pc \in Terminal \cup {"exit"}) => closeCalls = 1
  /\ AnyRaised => closeCalls = 0
  /\ ctxExits = (IF pc \in Terminal THEN 1 ELSE 0)

\* a run that failed at new_page: close skipped, scope exited once
C10_Witness ==
  /\ pc = "failed"
  /\ Raised("new_page")
  /\ closeCalls = 0
  /\ ctxExits = 1

====
